---- MODULE Spec2Model ----
(***************************************************************************)
(* Model of src/main.py: the register / login / authenticate flows and the *)
(* per-user settings document, over the two store collections "authuser"   *)
(* and "settings".  Every action is one request step: the code that runs   *)
(* between two accesses of the store, together with the access it ends in. *)
(* Strings the code inspects character by character (emails, names) are    *)
(* tuples of one-character strings.  The endpoints that write nothing and *)
(* that no property reads (/, /api/hello, /test, /auth/me) are left out.   *)
(***************************************************************************)
EXTENDS Integers, Sequences, FiniteSets, TLC

VARIABLES authuser, settings, nextId, now, ticks, reqs

vars == <<authuser, settings, nextId, now, ticks, reqs>>

-----------------------------------------------------------------------------
(* Bounds of the model. *)

MaxRequests == 4
MaxRegister == 2
MaxLogin == 1
MaxGet == 2
MaxUpdate == 1
MaxTicks == 1
\* The requests received in the runs in which the store's operator acts.
MaxAdminRequests == 3

-----------------------------------------------------------------------------
(* Program constants. *)

JWT_SECRET == "dev-secret-change-me"

ACCESS_TOKEN_EXPIRE_MINUTES == 60 * 24 * 7

PasswordMinLength == 6

ToneMin == 0

ToneMax == 100

MaxReplyLenMin == 80

MaxReplyLenMax == 800

MemberRoles == {"Owner", "Admin", "Editor"}

\* BSON stores a datetime as whole milliseconds: 1000 microseconds each.
MicrosPerMilli == 1000

-----------------------------------------------------------------------------
(* Inputs the requests are drawn from. *)

\* RegisterRequest bodies: email, password, name (<<>> when not given).
RegisterInputs ==
    { << <<"a", "@", "x">>, "secret1", <<>> >>,
      << <<"A", "@", "X">>, "hunter22", << <<"A", "n", "n">> >> >>,
      << <<"a", "@", "x">>, "short", <<>> >>,
      << <<"a", "x">>, "secret1", <<>> >> }

\* LoginRequest bodies: email, password.
LoginInputs ==
    { << <<"A", "@", "X">>, "secret1" >>,
      << <<"a", "@", "x">>, "hunter22" >> }

\* The microsecond part of the clock's first reading.
MicroInputs == { 123456 }

\* What the clock does between two steps: seconds elapsed, and the microsecond
\* part of the new reading.
TickInputs ==
    { <<1, 0>>,
      <<ACCESS_TOKEN_EXPIRE_MINUTES * 60, 123456>> }

-----------------------------------------------------------------------------
(* Strings. *)

LowerChar(c) ==
    CASE c = "A" -> "a"
      [] c = "X" -> "x"
      [] c = "B" -> "b"
      [] OTHER -> c

\* The email kept as the client wrote it.
LowerMut(s) == s

\* str.lower()
Lower(s) == [i \in DOMAIN s |-> LowerChar(s[i])]

AtIdx(s) == { i \in DOMAIN s : s[i] = "@" }

\* pydantic EmailStr: one "@" with a local part and a domain around it.
IsEmail(s) ==
    /\ Cardinality(AtIdx(s)) = 1
    /\ \A i \in AtIdx(s) : 1 < i /\ i < Len(s)

\* pydantic EmailStr: the validated value keeps the local part, lowers the domain.
EmailStr(s) ==
    LET a == CHOOSE i \in AtIdx(s) : TRUE
    IN  [i \in DOMAIN s |-> IF i > a THEN LowerChar(s[i]) ELSE s[i]]

\* email.split("@")[0]
LocalPart(s) ==
    IF AtIdx(s) = {} THEN s
    ELSE LET a == CHOOSE i \in AtIdx(s) : \A j \in AtIdx(s) : i <= j
         IN  SubSeq(s, 1, a - 1)

\* str(ObjectId)
Str(oid) == ToString(oid)

-----------------------------------------------------------------------------
(* Password hasher. *)

hash_password(password) == [scheme |-> "bcrypt", secret |-> password]

verify_password(password, hashed) ==
    /\ hashed.scheme = "bcrypt"
    /\ hashed.secret = password

-----------------------------------------------------------------------------
(* Store: a collection is the sequence of its documents in natural order.  *)

\* The encoding of a datetime the store keeps: whole milliseconds.
BsonDatetime(dt) ==
    [sec |-> dt.sec, micro |-> (dt.micro \div MicrosPerMilli) * MicrosPerMilli]

DatetimeFields == {"created_at", "updated_at"}

\* The document as the store keeps it.
BsonEncode(doc) ==
    [f \in DOMAIN doc |->
        IF f \in DatetimeFields THEN BsonDatetime(doc[f]) ELSE doc[f]]

\* find_one({"email": email}) on authuser: index of the first match, 0 if none.
FindUser(coll, email) ==
    IF \E i \in DOMAIN coll : coll[i].email = email
    THEN CHOOSE i \in DOMAIN coll :
            /\ coll[i].email = email
            /\ \A j \in DOMAIN coll : coll[j].email = email => i <= j
    ELSE 0

\* find_one({"user_id": user_id}) on settings: index of the first match, 0 if none.
FindSettings(coll, user_id) ==
    IF \E i \in DOMAIN coll : coll[i].user_id = user_id
    THEN CHOOSE i \in DOMAIN coll :
            /\ coll[i].user_id = user_id
            /\ \A j \in DOMAIN coll : coll[j].user_id = user_id => i <= j
    ELSE 0

\* insert_one(doc): the document gets the next ObjectId.
WithId(doc, oid) ==
    [f \in DOMAIN doc \cup {"_id"} |-> IF f = "_id" THEN oid ELSE doc[f]]

\* A merge in which the fields the document already has win.
SetFieldsMut(doc, update_data) ==
    [f \in DOMAIN doc \cup DOMAIN update_data |->
        IF f \in DOMAIN doc THEN doc[f] ELSE update_data[f]]

\* {"$set": update_data} applied to a document.
SetFields(doc, update_data) ==
    [f \in DOMAIN doc \cup DOMAIN update_data |->
        IF f \in DOMAIN update_data THEN update_data[f] ELSE doc[f]]

-----------------------------------------------------------------------------
(* Token service. *)

\* create_access_token: the claims, signed with the server secret.
create_access_token(sub, email, role, at) ==
    [sub |-> sub, email |-> email, role |-> role,
     iat |-> at.sec,
     exp |-> at.sec + ACCESS_TOKEN_EXPIRE_MINUTES * 60,
     key |-> JWT_SECRET]

\* jwt.decode: the signature first, then the expiry.
jwt_decode(token, at) ==
    IF token.key # JWT_SECRET THEN "InvalidTokenError"
    ELSE IF token.exp <= at.sec THEN "ExpiredSignatureError"
    ELSE "ok"

\* get_current_user: <<status, detail, user_doc>>, the header being <<>> when
\* absent and <<token>> for "Bearer <token>".
get_current_user(authorization, users, at) ==
    IF authorization = <<>> THEN <<401, "Not authenticated", <<>> >>
    ELSE LET token == authorization[1]
             dec == jwt_decode(token, at)
             idx == FindUser(users, token.email)
         IN  IF dec = "ExpiredSignatureError" THEN <<401, "Token expired", <<>> >>
             ELSE IF dec = "InvalidTokenError" THEN <<401, "Invalid token", <<>> >>
             ELSE IF token.email = <<>> \/ token.sub = "" THEN <<401, "Invalid token", <<>> >>
             ELSE IF idx = 0 THEN <<401, "User not found", <<>> >>
             ELSE <<200, "", <<users[idx]>> >>

-----------------------------------------------------------------------------
(* Settings documents. *)

\* a or b on strings
OrElse(a, b) == IF a # <<>> THEN a ELSE b

default_settings_for_user(user_doc, at) ==
    [user_id |-> Str(user_doc._id),
     name |-> user_doc.name,
     email |-> user_doc.email,
     tz |-> "UTC",
     notifNew |-> TRUE,
     notifVip |-> TRUE,
     notifAi |-> FALSE,
     twoFA |-> FALSE,
     wsName |-> "Default Workspace",
     members |-> << [id |-> Str(user_doc._id),
                     name |-> OrElse(user_doc.name, LocalPart(user_doc.email)),
                     email |-> user_doc.email,
                     role |-> "Owner"] >>,
     tone |-> 50,
     brandVoice |-> "Friendly, concise, helpful. Avoid jargon.",
     exampleReplies |-> "Thanks for reaching out! Here's a quick answer...",
     avoidWords |-> "guarantee, promise, 100%",
     aiAutoReply |-> TRUE,
     maxReplyLen |-> 280,
     profanity |-> TRUE,
     keywords |-> <<"DEMO", "GUIDE", "PRICING">>,
     integrations |-> << [name |-> "Instagram", key |-> "instagram", connected |-> TRUE],
                         [name |-> "TikTok", key |-> "tiktok", connected |-> FALSE],
                         [name |-> "Facebook", key |-> "facebook", connected |-> FALSE],
                         [name |-> "Shopify", key |-> "shopify", connected |-> FALSE] >>,
     plan |-> "Pro",
     cycle |-> "Monthly",
     paymentMethod |-> "Visa .... 4242",
     darkMode |-> TRUE,
     language |-> "English",
     dtFormat |-> "YYYY-MM-DD, 24h",
     defaultView |-> "Unified Inbox",
     created_at |-> at,
     updated_at |-> at]

\* The response body of the settings endpoints: "id" for "_id".
Serialize(doc) ==
    [f \in (DOMAIN doc \ {"_id"}) \cup {"id"} |->
        IF f = "id" THEN Str(doc._id) ELSE doc[f]]

\* SettingsPayload without the bounds of tone.
ValidSettingsPayloadMut(p) ==
    /\ "maxReplyLen" \in DOMAIN p =>
          p.maxReplyLen >= MaxReplyLenMin /\ p.maxReplyLen <= MaxReplyLenMax
    /\ "members" \in DOMAIN p =>
          \A i \in DOMAIN p.members :
              /\ p.members[i].role \in MemberRoles
              /\ IsEmail(p.members[i].email)
    /\ "email" \in DOMAIN p => IsEmail(p.email)

\* SettingsPayload's field constraints (Member.role, tone, maxReplyLen, email).
ValidSettingsPayload(p) ==
    /\ "tone" \in DOMAIN p => p.tone >= ToneMin /\ p.tone <= ToneMax
    /\ "maxReplyLen" \in DOMAIN p =>
          p.maxReplyLen >= MaxReplyLenMin /\ p.maxReplyLen <= MaxReplyLenMax
    /\ "members" \in DOMAIN p =>
          \A i \in DOMAIN p.members :
              /\ p.members[i].role \in MemberRoles
              /\ IsEmail(p.members[i].email)
    /\ "email" \in DOMAIN p => IsEmail(p.email)

\* RegisterRequest's field constraints.
ValidRegisterRequest(email, password) ==
    /\ IsEmail(email)
    /\ Len(password) >= PasswordMinLength

\* payload.dict(exclude_unset=True): a Member without a role has the default.
PayloadInputs ==
    { [tone |-> 70],
      [tone |-> 150, wsName |-> "Team"],
      [maxReplyLen |-> 50, tone |-> 10],
      [members |-> << [id |-> "m2", name |-> <<"B", "o">>,
                       email |-> <<"b", "@", "x">>, role |-> "Guest"] >>,
       darkMode |-> FALSE],
      [wsName |-> "Team",
       members |-> << [id |-> "m2", name |-> <<"B", "o">>,
                       email |-> <<"b", "@", "x">>, role |-> "Admin"] >>] }

-----------------------------------------------------------------------------
(* Requests.  reqs is the sequence of the requests received so far, each   *)
(* with its inputs, its position (pc), its local variables and, once       *)
(* pc = "done", its response.                                              *)

NoDoc == <<>>

Request(kind, pc, email, password, name, auth, payload, user, doc, status, detail, body) ==
    [kind |-> kind, pc |-> pc, email |-> email, password |-> password,
     name |-> name, auth |-> auth, payload |-> payload, user |-> user,
     doc |-> doc, status |-> status, detail |-> detail, body |-> body]

\* The requests of a kind received so far; past MaxRequests no kind has room.
Count(kind) ==
    IF Len(reqs) >= MaxRequests THEN MaxRequests
    ELSE Cardinality({ i \in DOMAIN reqs : reqs[i].kind = kind })

\* The tokens the server has handed out, and what a client can send with them.
IssuedTokens ==
    { reqs[i].body[1] : i \in { j \in DOMAIN reqs :
                                   /\ reqs[j].kind \in {"register", "login"}
                                   /\ reqs[j].status = 200 } }

AuthInputs ==
    { <<>> } \cup { <<t>> : t \in IssuedTokens }
             \cup { <<[t EXCEPT !.key = "not-the-secret"]>> : t \in IssuedTokens }

Finish(i, status, detail, body) ==
    [reqs EXCEPT ![i] = [@ EXCEPT !.pc = "done", !.status = status,
                                  !.detail = detail, !.body = body]]

\* payload.name or email.split("@")[0]
NameOr(name, email) ==
    IF name # <<>> /\ name[1] # <<>> THEN name[1] ELSE LocalPart(email)

Init ==
    /\ authuser = <<>>
    /\ settings = <<>>
    /\ nextId = 1
    /\ now \in { [sec |-> 0, micro |-> m] : m \in MicroInputs }
    /\ ticks = 0
    /\ reqs = <<>>

-----------------------------------------------------------------------------
(* POST /auth/register *)

\* Validation, the lowering of the email and the uniqueness check.
Register(e, p, n) ==
    /\ Count("register") < MaxRegister
    /\ LET new(pc, doc, status, detail) ==
               Request("register", pc, e, p, n, <<>>, <<>>, <<>>, doc,
                       status, detail, <<>>)
       IN IF ~ValidRegisterRequest(e, p)
          THEN reqs' = Append(reqs, new("done", NoDoc, 422, "validation error"))
          ELSE LET email == Lower(EmailStr(e))
                   user_doc == [email |-> email,
                                name |-> NameOr(n, email),
                                password_hash |-> hash_password(p),
                                is_active |-> TRUE,
                                role |-> "user",
                                created_at |-> now,
                                updated_at |-> now]
               IN IF FindUser(authuser, email) # 0
                  THEN reqs' = Append(reqs, new("done", NoDoc, 400,
                                                "Email already registered"))
                  ELSE reqs' = Append(reqs, new("insert_user", user_doc, 0, ""))
    /\ UNCHANGED <<authuser, settings, nextId, now, ticks>>

\* db["authuser"].insert_one(user_doc)
RegisterInsertUser(i) ==
    /\ reqs[i].kind = "register"
    /\ reqs[i].pc = "insert_user"
    /\ LET inserted == WithId(reqs[i].doc, nextId)
       IN /\ authuser' = Append(authuser, BsonEncode(inserted))
          /\ reqs' = [reqs EXCEPT ![i] = [@ EXCEPT !.pc = "insert_settings",
                                                   !.doc = inserted]]
    /\ nextId' = nextId + 1
    /\ UNCHANGED <<settings, now, ticks>>

\* The default settings document, its insert, and the token.
RegisterInsertSettings(i) ==
    /\ reqs[i].kind = "register"
    /\ reqs[i].pc = "insert_settings"
    /\ LET user_doc == reqs[i].doc
           settings_doc == WithId(default_settings_for_user(user_doc, now), nextId)
           token == create_access_token(Str(user_doc._id), user_doc.email,
                                        user_doc.role, now)
       IN /\ settings' = Append(settings, BsonEncode(settings_doc))
          /\ reqs' = Finish(i, 200, "", <<token>>)
    /\ nextId' = nextId + 1
    /\ UNCHANGED <<authuser, now, ticks>>

\* The request ends between the two inserts (the settings insert raises, or
\* the process stops): the user record stays, no settings document, no token.
RegisterCrash(i) ==
    /\ reqs[i].kind = "register"
    /\ reqs[i].pc = "insert_settings"
    /\ reqs' = Finish(i, 500, "Internal Server Error", <<>>)
    /\ UNCHANGED <<authuser, settings, nextId, now, ticks>>

-----------------------------------------------------------------------------
(* POST /auth/login *)

Login(e, p) ==
    /\ Count("login") < MaxLogin
    /\ LET new(status, detail, body) ==
               Request("login", "done", e, p, <<>>, <<>>, <<>>, <<>>, NoDoc,
                       status, detail, body)
       IN IF ~IsEmail(e)
          THEN reqs' = Append(reqs, new(422, "validation error", <<>>))
          ELSE LET email == Lower(EmailStr(e))
                   idx == FindUser(authuser, email)
               IN IF idx = 0
                  THEN reqs' = Append(reqs, new(401, "Invalid credentials", <<>>))
                  ELSE IF ~verify_password(p, authuser[idx].password_hash)
                  THEN reqs' = Append(reqs, new(401, "Invalid credentials", <<>>))
                  ELSE IF ~authuser[idx].is_active
                  THEN reqs' = Append(reqs, new(403, "User is inactive", <<>>))
                  ELSE reqs' = Append(reqs, new(200, "",
                           <<create_access_token(Str(authuser[idx]._id), email,
                                                 authuser[idx].role, now)>>))
    /\ UNCHANGED <<authuser, settings, nextId, now, ticks>>

-----------------------------------------------------------------------------
(* GET /settings *)

\* The get_current_user dependency.
GetSettingsAuth(a) ==
    /\ Count("get_settings") < MaxGet
    /\ LET cu == get_current_user(a, authuser, now)
           new(pc, status, detail) ==
               Request("get_settings", pc, <<>>, "", <<>>, a, <<>>, cu[3], NoDoc,
                       status, detail, <<>>)
       IN IF cu[1] # 200
          THEN reqs' = Append(reqs, new("done", cu[1], cu[2]))
          ELSE reqs' = Append(reqs, new("find", 0, ""))
    /\ UNCHANGED <<authuser, settings, nextId, now, ticks>>

\* db["settings"].find_one({"user_id": user_id}), and the defaults if absent.
GetSettingsFind(i) ==
    /\ reqs[i].kind = "get_settings"
    /\ reqs[i].pc = "find"
    /\ LET current_user == reqs[i].user[1]
           idx == FindSettings(settings, Str(current_user._id))
       IN IF idx # 0
          THEN reqs' = Finish(i, 200, "", <<Serialize(settings[idx])>>)
          ELSE reqs' = [reqs EXCEPT ![i] =
                          [@ EXCEPT !.pc = "insert",
                                    !.doc = default_settings_for_user(current_user, now)]]
    /\ UNCHANGED <<authuser, settings, nextId, now, ticks>>

\* db["settings"].insert_one(doc); the response is the document just built.
GetSettingsInsert(i) ==
    /\ reqs[i].kind = "get_settings"
    /\ reqs[i].pc = "insert"
    /\ LET doc == WithId(reqs[i].doc, nextId)
       IN /\ settings' = Append(settings, BsonEncode(doc))
          /\ reqs' = Finish(i, 200, "", <<Serialize(doc)>>)
    /\ nextId' = nextId + 1
    /\ UNCHANGED <<authuser, now, ticks>>

-----------------------------------------------------------------------------
(* PUT /settings *)

\* The get_current_user dependency, then the validation of the body.
UpdateSettingsAuth(a, p) ==
    /\ Count("update_settings") < MaxUpdate
    /\ LET cu == get_current_user(a, authuser, now)
           new(pc, status, detail) ==
               Request("update_settings", pc, <<>>, "", <<>>, a, p, cu[3], NoDoc,
                       status, detail, <<>>)
       IN IF cu[1] # 200
          THEN reqs' = Append(reqs, new("done", cu[1], cu[2]))
          ELSE IF ~ValidSettingsPayload(p)
          THEN reqs' = Append(reqs, new("done", 422, "validation error"))
          ELSE reqs' = Append(reqs, new("upsert", 0, ""))
    /\ UNCHANGED <<authuser, settings, nextId, now, ticks>>

\* update_data and find_one_and_update(..., {"$set": update_data}, upsert=True).
UpdateSettingsUpsert(i) ==
    /\ reqs[i].kind = "update_settings"
    /\ reqs[i].pc = "upsert"
    /\ LET user_id == Str(reqs[i].user[1]._id)
           update_data == SetFields(reqs[i].payload, [updated_at |-> now])
           idx == FindSettings(settings, user_id)
           res == IF idx # 0
                  THEN BsonEncode(SetFields(settings[idx], update_data))
                  ELSE BsonEncode(WithId(SetFields([user_id |-> user_id], update_data),
                                         nextId))
       IN /\ settings' = IF idx # 0 THEN [settings EXCEPT ![idx] = res]
                         ELSE Append(settings, res)
          /\ nextId' = IF idx # 0 THEN nextId ELSE nextId + 1
          /\ reqs' = [reqs EXCEPT ![i] = [@ EXCEPT !.pc = "fetch", !.doc = res]]
    /\ UNCHANGED <<authuser, now, ticks>>

\* doc = db["settings"].find_one({"user_id": user_id}), serialized.
UpdateSettingsFetch(i) ==
    /\ reqs[i].kind = "update_settings"
    /\ reqs[i].pc = "fetch"
    /\ LET idx == FindSettings(settings, Str(reqs[i].user[1]._id))
       IN reqs' = Finish(i, 200, "", <<Serialize(settings[idx])>>)
    /\ UNCHANGED <<authuser, settings, nextId, now, ticks>>

-----------------------------------------------------------------------------
(* The clock, and the store's operator. *)

Tick(d, m) ==
    /\ ticks < MaxTicks
    /\ now' = [sec |-> now.sec + d, micro |-> m]
    /\ ticks' = ticks + 1
    /\ UNCHANGED <<authuser, settings, nextId, reqs>>

\* A write to the store from outside the endpoints: the user is set inactive,
\* the state login's is_active check is there for.
Deactivate(u) ==
    /\ authuser[u].is_active
    /\ authuser' = [authuser EXCEPT ![u] = [@ EXCEPT !.is_active = FALSE]]
    /\ UNCHANGED <<settings, nextId, now, ticks, reqs>>

-----------------------------------------------------------------------------

Next ==
    \/ \E x \in RegisterInputs : Register(x[1], x[2], x[3])
    \/ \E i \in DOMAIN reqs : RegisterInsertUser(i)
    \/ \E i \in DOMAIN reqs : RegisterInsertSettings(i)
    \/ \E i \in DOMAIN reqs : RegisterCrash(i)
    \/ \E x \in LoginInputs : Login(x[1], x[2])
    \/ \E a \in AuthInputs : GetSettingsAuth(a)
    \/ \E i \in DOMAIN reqs : GetSettingsFind(i)
    \/ \E i \in DOMAIN reqs : GetSettingsInsert(i)
    \/ \E a \in AuthInputs, p \in PayloadInputs : UpdateSettingsAuth(a, p)
    \/ \E i \in DOMAIN reqs : UpdateSettingsUpsert(i)
    \/ \E i \in DOMAIN reqs : UpdateSettingsFetch(i)
    \/ \E x \in TickInputs : Tick(x[1], x[2])

Spec == Init /\ [][Next]_vars

NextAdmin ==
    \/ Next /\ Len(reqs') <= MaxAdminRequests
    \/ \E u \in DOMAIN authuser : Deactivate(u)

SpecAdmin == Init /\ [][NextAdmin]_vars

-----------------------------------------------------------------------------
(* Vocabulary of the properties. *)

\* A step in which a request is received: the request.
Received == Len(reqs') = Len(reqs) + 1

Arrival == reqs'[Len(reqs')]

SameLetter(c, d) ==
    \/ c = d
    \/ {c, d} \in { {"a", "A"}, {"b", "B"}, {"x", "X"} }

\* Two emails equal ignoring letter case.
EqIgnoreCase(s, t) ==
    /\ Len(s) = Len(t)
    /\ \A i \in DOMAIN s : SameLetter(s[i], t[i])

Registered == { j \in DOMAIN reqs : reqs[j].kind = "register" /\ reqs[j].status = 200 }

StoreUnchanged == authuser' = authuser /\ settings' = settings

\* The outcome of a duplicate registration: 400, nothing written, no token.
DuplicateEmailOutcome ==
    /\ Arrival.pc = "done"
    /\ Arrival.status = 400
    /\ Arrival.detail = "Email already registered"
    /\ Arrival.body = <<>>
    /\ StoreUnchanged

DocsOf(user_id) == { k \in DOMAIN settings : settings[k].user_id = user_id }

UserIds == { Str(authuser[u]._id) : u \in DOMAIN authuser }

\* The users whose settings a completed get or update has accessed.
Accessed ==
    { Str(reqs[i].user[1]._id) :
        i \in { j \in DOMAIN reqs : /\ reqs[j].kind \in {"get_settings", "update_settings"}
                                    /\ reqs[j].pc = "done"
                                    /\ reqs[j].status = 200 } }

DefaultFields ==
    { "user_id", "name", "email", "tz", "notifNew", "notifVip", "notifAi", "twoFA",
      "wsName", "members", "tone", "brandVoice", "exampleReplies", "avoidWords",
      "aiAutoReply", "maxReplyLen", "profanity", "keywords", "integrations",
      "plan", "cycle", "paymentMethod", "darkMode", "language", "dtFormat",
      "defaultView", "created_at", "updated_at" }

-----------------------------------------------------------------------------
(* C1 *)

\* C1 as stated: after a successful register(e, p), a later register whose email
\* equals e ignoring letter case, with any password and name, ends with the
\* DuplicateEmail outcome (400 "Email already registered"), writes nothing and
\* issues no token.
C1_AnyPasswordDuplicateEmail ==
    [][ (Received /\ Arrival.kind = "register"
           /\ \E j \in Registered : EqIgnoreCase(Arrival.email, reqs[j].email))
        => DuplicateEmailOutcome ]_vars

\* C1 amended: after a successful register(e, p), a later register whose email
\* equals e ignoring letter case and whose password has at least 6 characters
\* (any name) ends with the DuplicateEmail outcome (400 "Email already
\* registered"), inserts no user record and no settings document and issues
\* no token.
C1_DuplicateEmail ==
    [][ (Received /\ Arrival.kind = "register"
           /\ Len(Arrival.password) >= 6
           /\ \E j \in Registered : EqIgnoreCase(Arrival.email, reqs[j].email))
        => DuplicateEmailOutcome ]_vars

\* A register in another letter casing, received after a successful one, was
\* answered 400.
C1_Witness ==
    \E j \in Registered : \E k \in DOMAIN reqs :
        /\ k > j
        /\ reqs[k].kind = "register"
        /\ reqs[k].email # reqs[j].email
        /\ EqIgnoreCase(reqs[k].email, reqs[j].email)
        /\ reqs[k].status = 400
        /\ Len(authuser) = 1

-----------------------------------------------------------------------------
(* C2 *)

\* C2: in every reachable state no two user records have emails that are equal
\* ignoring letter case.
C2_EmailsUnique ==
    \A i, j \in DOMAIN authuser :
        i # j => ~EqIgnoreCase(authuser[i].email, authuser[j].email)

-----------------------------------------------------------------------------
(* C3 *)

\* C3: in every reachable state the settings collection holds at most one
\* document per user_id, and exactly one for a user whose settings a completed
\* get or update has accessed.
C3_OneSettingsPerUser ==
    /\ \A u \in UserIds : Cardinality(DocsOf(u)) <= 1
    /\ \A u \in Accessed : Cardinality(DocsOf(u)) = 1

-----------------------------------------------------------------------------
(* C4 *)

\* The three conditions of a valid token, read off the state the request sees.
TokenValid(a) ==
    /\ a # <<>>
    /\ a[1].key = JWT_SECRET
    /\ now.sec < a[1].exp
    /\ \E u \in DOMAIN authuser :
          /\ u = FindUser(authuser, a[1].email)
          /\ authuser[u].is_active

\* C4: get_current_user binds a principal if and only if the token's signature
\* matches the server secret, the current time is before its expiry, and its
\* email claim resolves to an existing user record whose active flag is true;
\* otherwise the request is answered 401.
C4_AcceptsIffValid ==
    [][ (Received /\ Arrival.kind \in {"get_settings", "update_settings"})
        => /\ (Arrival.user # <<>>) <=> TokenValid(Arrival.auth)
           /\ ~TokenValid(Arrival.auth) => Arrival.status = 401 ]_vars

-----------------------------------------------------------------------------
(* C5 *)

\* C5: a login with the password of a successful register and its email in any
\* letter casing succeeds, its token's subject is the subject of the token the
\* register returned, and authenticating with it binds the user record whose
\* id is that subject.
C5_LoginAfterRegister ==
    [][ (Received /\ Arrival.kind = "login")
        => \A j \in Registered :
              (EqIgnoreCase(Arrival.email, reqs[j].email)
                 /\ Arrival.password = reqs[j].password)
              => /\ Arrival.status = 200
                 /\ Arrival.body[1].sub = reqs[j].body[1].sub
                 /\ LET cu == get_current_user(Arrival.body, authuser', now')
                    IN  /\ cu[1] = 200
                        /\ Str(cu[3][1]._id) = reqs[j].body[1].sub ]_vars

-----------------------------------------------------------------------------
(* C6 *)

\* The step of request i that runs find_one_and_update on an existing document.
UpsertsExisting(i) ==
    /\ reqs[i].kind = "update_settings"
    /\ reqs[i].pc = "upsert"
    /\ reqs'[i].pc = "fetch"
    /\ FindSettings(settings, Str(reqs[i].user[1]._id)) # 0

\* The step of request i that answers a get from a stored document.
GetReads(i) ==
    /\ reqs[i].kind = "get_settings"
    /\ reqs[i].pc = "find"
    /\ reqs'[i].pc = "done"

PatchApplied(old, new, payload) ==
    /\ DOMAIN new = DOMAIN old \cup DOMAIN payload \cup {"updated_at"}
    /\ \A f \in DOMAIN payload : new[f] = payload[f]
    /\ \A f \in DOMAIN old \ (DOMAIN payload \cup {"updated_at"}) : new[f] = old[f]

\* C6: an update of an existing settings document leaves it holding the
\* payload's value for every field present in the payload and the value it had
\* for every other field except updated_at, changes no other document, and a
\* get that follows (the document still being the one the update left) returns
\* exactly that document.
C6_PatchSemantics ==
    [][ \A i \in DOMAIN reqs :
          /\ UpsertsExisting(i) =>
                LET k == FindSettings(settings, Str(reqs[i].user[1]._id))
                IN  /\ Len(settings') = Len(settings)
                    /\ \A m \in DOMAIN settings : m # k => settings'[m] = settings[m]
                    /\ PatchApplied(settings[k], settings'[k], reqs[i].payload)
          /\ GetReads(i) =>
                \A u \in DOMAIN reqs :
                    (/\ reqs[u].kind = "update_settings"
                     /\ reqs[u].pc \in {"fetch", "done"}
                     /\ reqs[u].status \in {0, 200}
                     /\ reqs[u].user = reqs[i].user
                     /\ reqs[u].doc = settings[FindSettings(settings,
                                                 Str(reqs[i].user[1]._id))])
                    => reqs'[i].body = <<Serialize(reqs[u].doc)>> ]_vars

\* An update patched the document register created (tone 70, the workspace
\* name still the default) and a get returned it.
C6_Witness ==
    \E u, g \in DOMAIN reqs :
        /\ reqs[u].kind = "update_settings" /\ reqs[u].status = 200
        /\ reqs[g].kind = "get_settings" /\ reqs[g].status = 200
        /\ g > u
        /\ reqs[u].payload = [tone |-> 70]
        /\ reqs[g].body = <<Serialize(reqs[u].doc)>>
        /\ reqs[g].body[1].tone = 70
        /\ "wsName" \in DOMAIN reqs[g].body[1]
        /\ reqs[g].body[1].wsName = "Default Workspace"

-----------------------------------------------------------------------------
(* C7 *)

\* C7: every successful settings-get returns a document that contains every
\* field of the default payload.
C7_GetHasAllDefaultFields ==
    \A i \in DOMAIN reqs :
        (reqs[i].kind = "get_settings" /\ reqs[i].pc = "done" /\ reqs[i].status = 200)
        => DefaultFields \subseteq DOMAIN reqs[i].body[1]

-----------------------------------------------------------------------------
(* C8 *)

\* A payload with a field outside its constraints.
OutOfRange(p) ==
    \/ "tone" \in DOMAIN p /\ (p.tone < 0 \/ p.tone > 100)
    \/ "maxReplyLen" \in DOMAIN p /\ (p.maxReplyLen < 80 \/ p.maxReplyLen > 800)
    \/ "members" \in DOMAIN p
         /\ \E m \in DOMAIN p.members :
               p.members[m].role \notin {"Owner", "Admin", "Editor"}

\* C8: a register with a password shorter than 6 characters is answered with a
\* validation error and writes no user record and no settings document; a
\* settings update whose tone is outside 0..100, whose maxReplyLen is outside
\* 80..800 or whose member role is not Owner/Admin/Editor is rejected as a
\* whole (422 once authenticated), takes no further step, and leaves both
\* collections as they were.
C8_RejectedLeavesStore ==
    [][ Received =>
          /\ (Arrival.kind = "register" /\ Len(Arrival.password) < 6)
                => /\ Arrival.pc = "done"
                   /\ Arrival.status = 422
                   /\ Arrival.body = <<>>
                   /\ StoreUnchanged
          /\ (Arrival.kind = "update_settings" /\ OutOfRange(Arrival.payload))
                => /\ Arrival.pc = "done"
                   /\ Arrival.status \in {401, 422}
                   /\ Arrival.user # <<>> => Arrival.status = 422
                   /\ StoreUnchanged ]_vars

\* An authenticated update with tone 150 was answered 422 while the user's
\* settings document holds the default tone, and a register with a short
\* password was answered 422.
C8_Witness ==
    /\ \E i \in DOMAIN reqs :
          /\ reqs[i].kind = "update_settings"
          /\ reqs[i].user # <<>>
          /\ "tone" \in DOMAIN reqs[i].payload
          /\ reqs[i].payload.tone = 150
          /\ reqs[i].status = 422
          /\ \E k \in DocsOf(Str(reqs[i].user[1]._id)) :
                settings[k].tone = 50 /\ settings[k].wsName = "Default Workspace"
    /\ \E i \in DOMAIN reqs :
          /\ reqs[i].kind = "register"
          /\ Len(reqs[i].password) < 6
          /\ reqs[i].status = 422

-----------------------------------------------------------------------------
(* C9 *)

\* The step in which get request i is answered 200.
GetAnswered(i) ==
    /\ reqs[i].kind = "get_settings"
    /\ reqs[i].pc # "done"
    /\ reqs'[i].pc = "done"
    /\ reqs'[i].status = 200

\* C9: a get answered after an earlier get by the same user, no update by that
\* user in between (here: none at all), returns the identical document, and
\* it inserts nothing when the earlier get had been answered before it began
\* to read.
C9_GetIdempotent ==
    [][ \A i \in DOMAIN reqs : GetAnswered(i) =>
          \A h \in DOMAIN reqs :
              (/\ reqs[h].kind = "get_settings"
               /\ reqs[h].pc = "done"
               /\ reqs[h].status = 200
               /\ reqs[h].user[1]._id = reqs[i].user[1]._id
               /\ \A u \in DOMAIN reqs :
                     reqs[u].kind = "update_settings" /\ reqs[u].user # <<>>
                     => reqs[u].user[1]._id # reqs[i].user[1]._id)
              => /\ reqs'[i].body = reqs[h].body
                 /\ h < i => settings' = settings ]_vars

-----------------------------------------------------------------------------
(* C10 *)

\* The step is one of settings request i.
StepOf(i) ==
    /\ reqs[i].kind \in {"get_settings", "update_settings"}
    /\ reqs'[i] # reqs[i]

\* C10: for a token issued by register or login, the principal authenticate
\* binds has the id that is the token's subject, and a settings get or update
\* made with the token writes only the settings document whose user_id is that
\* subject.
C10_TenantIsolation ==
    [][ /\ (Received /\ Arrival.kind \in {"get_settings", "update_settings"}
              /\ Arrival.user # <<>>)
           => Str(Arrival.user[1]._id) = Arrival.auth[1].sub
        /\ \A i \in DOMAIN reqs : StepOf(i) =>
              /\ \A k \in DOMAIN settings :
                    settings[k].user_id # reqs[i].auth[1].sub
                    => settings'[k] = settings[k]
              /\ \A k \in DOMAIN settings' \ DOMAIN settings :
                    settings'[k].user_id = reqs[i].auth[1].sub ]_vars

====
